---- MODULE Spec2Model ----
(***************************************************************************)
(* A model of the FastAPI vertical-slice scaffold:                         *)
(*   - shared/config.py   : Settings construction and its validators       *)
(*   - main.py            : lifespan, middleware chain, health check       *)
(*   - shared/database.py : the per-request session dependency             *)
(*   - shared/exceptions.py, users/api.py, users/service.py, auth/api.py   *)
(* Strings are TLA+ strings read as character sequences (Len, SubSeq, \o). *)
(***************************************************************************)
EXTENDS Integers, Sequences, FiniteSets, TLC

VARIABLES
    env,          \* the raw inputs Settings() is constructed from
    importState,  \* "pending" | "ok" | "failed": the import of shared.config
    errors,       \* the fields whose validation failed
    settings,     \* <<>> or <<the global Settings object>> (config.py:160)
    phase,        \* "import" | "startup" | "serving" | "draining" | "stopped"
    engine,       \* "none" | "live" | "disposed" (database.py:9)
    reqs,         \* request number -> the request's record
    nreq,         \* number of requests received so far
    sessions,     \* session id -> "unused" | "open" | "closed"
    http          \* a method and path handed to the application's router

vars == <<env, importState, errors, settings, phase, engine, reqs, nreq, sessions, http>>

(***************************************************************************)
(* Bounds                                                                  *)
(***************************************************************************)
MaxLen == 4        \* longest exhaustively enumerated list-field string
MaxRequests == 2   \* requests received over one run of the service
MaxTail == 2       \* path segments after the prefix of a routed path

(***************************************************************************)
(* Strings                                                                 *)
(***************************************************************************)
CharAt(s, i) == SubSeq(s, i, i)

\* str.startswith
StartsWith(s, p) == Len(s) >= Len(p) /\ SubSeq(s, 1, Len(p)) = p

EndsWith(s, p) == Len(s) >= Len(p) /\ SubSeq(s, Len(s) - Len(p) + 1, Len(s)) = p

\* the characters str.strip() removes (those of them the inputs use)
Whitespace == {" ", "\t", "\n"}

RECURSIVE lstrip(_)
lstrip(s) ==
    IF Len(s) > 0 /\ CharAt(s, 1) \in Whitespace THEN lstrip(SubSeq(s, 2, Len(s))) ELSE s

RECURSIVE rstrip(_)
rstrip(s) ==
    IF Len(s) > 0 /\ CharAt(s, Len(s)) \in Whitespace
    THEN rstrip(SubSeq(s, 1, Len(s) - 1)) ELSE s

\* str.strip()
strip(s) == rstrip(lstrip(s))

\* index of the first occurrence of the one-character string c in s at or
\* after position i, 0 if there is none (str.find, 1-based)
RECURSIVE find(_, _, _)
find(s, c, i) ==
    IF i > Len(s) THEN 0
    ELSE IF CharAt(s, i) = c THEN i
    ELSE find(s, c, i + 1)

\* str.split(sep) for a one-character separator: always at least one element
RECURSIVE split(_, _)
split(s, sep) ==
    LET i == find(s, sep, 1) IN
    IF i = 0 THEN <<s>>
    ELSE <<SubSeq(s, 1, i - 1)>> \o split(SubSeq(s, i + 1, Len(s)), sep)

LowerCase == "abcdefghijklmnopqrstuvwxyz"
UpperCase == "ABCDEFGHIJKLMNOPQRSTUVWXYZ"

upperChar(c) ==
    LET i == find(LowerCase, c, 1) IN IF i = 0 THEN c ELSE CharAt(UpperCase, i)

\* str.upper()
RECURSIVE upper(_)
upper(s) ==
    IF Len(s) = 0 THEN s ELSE upperChar(CharAt(s, 1)) \o upper(SubSeq(s, 2, Len(s)))

\* ",".join(l)
RECURSIVE join(_, _)
join(l, sep) ==
    IF Len(l) = 0 THEN ""
    ELSE IF Len(l) = 1 THEN l[1]
    ELSE l[1] \o sep \o join(Tail(l), sep)

(***************************************************************************)
(* Raw values: what a field of Settings is constructed from                *)
(***************************************************************************)
Missing == [kind |-> "missing"]
StrVal(s) == [kind |-> "str", s |-> s]
ListVal(l) == [kind |-> "list", l |-> l]
BoolVal(b) == [kind |-> "bool", b |-> b]

\* a validator's outcome: a value or a ValueError
Ok(v) == [ok |-> TRUE, v |-> v]
ValueError(msg) == [ok |-> FALSE, msg |-> msg]

(***************************************************************************)
(* shared/config.py: the validators                                        *)
(***************************************************************************)
validate_database_url(v) ==
    IF v.kind = "str" /\ ~StartsWith(v.s, "postgresql")
    THEN ValueError("DATABASE_URL must be a PostgreSQL URL")
    ELSE Ok(v)

PlaceholderSecrets ==
    {"your-super-secret-key-change-in-production", "jwt-secret-key-change-in-production"}

validate_secret_keys_first_only(v) ==
    IF v = "your-super-secret-key-change-in-production"
    THEN ValueError("Please change the default secret key in production")
    ELSE Ok(v)

validate_secret_keys(v) ==
    IF v \in PlaceholderSecrets
    THEN ValueError("Please change the default secret key in production")
    ELSE Ok(v)

MapSeq(f(_), l) == [i \in 1..Len(l) |-> f(l[i])]

parse_allowed_origins_no_strip(v) ==
    IF v.kind = "str" THEN ListVal(split(v.s, ",")) ELSE v

parse_allowed_origins(v) ==
    IF v.kind = "str" THEN ListVal(MapSeq(strip, split(v.s, ","))) ELSE v

upperStrip(s) == upper(strip(s))

parse_allowed_methods_no_upper(v) ==
    IF v.kind = "str" THEN ListVal(MapSeq(strip, split(v.s, ","))) ELSE v

parse_allowed_methods(v) ==
    IF v.kind = "str" THEN ListVal(MapSeq(upperStrip, split(v.s, ","))) ELSE v

parse_allowed_headers(v) ==
    IF v.kind = "str" THEN ListVal(MapSeq(strip, split(v.s, ","))) ELSE v

parse_allowed_hosts(v) ==
    IF v.kind = "str" THEN ListVal(MapSeq(strip, split(v.s, ","))) ELSE v

(***************************************************************************)
(* shared/config.py: the field types                                       *)
(***************************************************************************)
\* the schemes pydantic's PostgresDsn allows
PostgresSchemes ==
    {"postgres", "postgresql", "postgresql+asyncpg", "postgresql+pg8000",
     "postgresql+psycopg", "postgresql+psycopg2", "postgresql+psycopg2cffi",
     "postgresql+py-postgresql", "postgresql+pygresql"}

\* the scheme of a URL: what precedes the first ":" ("" if there is none)
SchemeOf(s) ==
    LET i == find(s, ":", 1) IN IF i = 0 THEN "" ELSE SubSeq(s, 1, i - 1)

\* a URL has the form scheme://host...; PostgresDsn requires a host
HasAuthority(s) ==
    LET i == find(s, ":", 1) IN
    i > 1 /\ SubSeq(s, i, i + 2) = "://" /\ Len(s) > i + 2 /\ CharAt(s, i + 3) # "/"

\* a field typed AnyUrl instead of PostgresDsn: any scheme passes
any_url(v) ==
    IF v.kind = "str" /\ HasAuthority(v.s)
    THEN Ok(v.s)
    ELSE ValueError("Input should be a valid URL")

\* DATABASE_URL: PostgresDsn
postgres_dsn(v) ==
    IF v.kind = "str" /\ HasAuthority(v.s) /\ SchemeOf(v.s) \in PostgresSchemes
    THEN Ok(v.s)
    ELSE ValueError("URL scheme should be a PostgreSQL scheme with a host")

\* a field typed str
str_type(v) ==
    IF v.kind = "str" THEN Ok(v.s) ELSE ValueError("Input should be a valid string")

\* a field typed List[str]
list_of_str(v) ==
    IF v.kind = "list" THEN Ok(v.l) ELSE ValueError("Input should be a valid list")

\* a field typed bool
bool_type(v) ==
    IF v.kind = "bool" THEN Ok(v.b) ELSE ValueError("Input should be a valid boolean")

Required == ValueError("Field required")

\* a pre=True validator runs before the type, a plain validator after it
PreThenType(pre(_), type(_), v) ==
    LET r == pre(v) IN IF r.ok THEN type(r.v) ELSE r

TypeThenPost(type(_), post(_), v) ==
    LET r == type(v) IN IF r.ok THEN post(r.v) ELSE r

ParseThenType(parse(_), v) == list_of_str(parse(v))

SecretFields == {"SECRET_KEY", "JWT_SECRET_KEY"}
ListFields == {"ALLOWED_ORIGINS", "ALLOWED_METHODS", "ALLOWED_HEADERS", "ALLOWED_HOSTS"}
Fields ==
    {"APP_NAME", "APP_VERSION", "DEBUG", "DATABASE_URL"} \cup SecretFields \cup ListFields

\* Field(default=...) of the fields that have one (validators do not run on it)
Default(f) ==
    CASE f = "APP_NAME" -> "FastAPI Vertical Slice"
      [] f = "APP_VERSION" -> "0.1.0"
      [] f = "DEBUG" -> FALSE
      [] f = "ALLOWED_ORIGINS" -> <<"http://localhost:3000", "http://localhost:8000">>
      [] f = "ALLOWED_METHODS" -> <<"GET", "POST", "PUT", "DELETE", "PATCH">>
      [] f = "ALLOWED_HEADERS" -> <<"*">>
      [] f = "ALLOWED_HOSTS" -> <<"*">>

\* the validation of one field of Settings from its raw input
ValidateField(f, v) ==
    CASE f = "DATABASE_URL" ->
            IF v = Missing THEN Required
            ELSE PreThenType(validate_database_url, postgres_dsn, v)
      [] f \in SecretFields ->
            IF v = Missing THEN Required
            ELSE TypeThenPost(str_type, validate_secret_keys, v)
      [] f = "ALLOWED_ORIGINS" ->
            IF v = Missing THEN Ok(Default(f)) ELSE ParseThenType(parse_allowed_origins, v)
      [] f = "ALLOWED_METHODS" ->
            IF v = Missing THEN Ok(Default(f)) ELSE ParseThenType(parse_allowed_methods, v)
      [] f = "ALLOWED_HEADERS" ->
            IF v = Missing THEN Ok(Default(f)) ELSE ParseThenType(parse_allowed_headers, v)
      [] f = "ALLOWED_HOSTS" ->
            IF v = Missing THEN Ok(Default(f)) ELSE ParseThenType(parse_allowed_hosts, v)
      [] f = "DEBUG" ->
            IF v = Missing THEN Ok(Default(f)) ELSE bool_type(v)
      [] f \in {"APP_NAME", "APP_VERSION"} ->
            IF v = Missing THEN Ok(Default(f)) ELSE str_type(v)

\* Settings(**e): the object, or the set of fields that failed validation
SettingsNew(e) ==
    LET res == [f \in Fields |-> ValidateField(f, e[f])]
        bad == {f \in Fields : ~res[f].ok}
    IN  IF bad = {}
        THEN [ok |-> TRUE, obj |-> [f \in Fields |-> res[f].v], errors |-> {}]
        ELSE [ok |-> FALSE, obj |-> <<>>, errors |-> bad]

(***************************************************************************)
(* Inputs of Settings()                                                    *)
(***************************************************************************)
Alphabet == {"a", "B", ",", " "}

RECURSIVE Strs(_)
Strs(n) ==
    IF n = 0 THEN {""}
    ELSE LET S == Strs(n - 1) IN S \cup {s \o c : s \in {x \in S : Len(x) = n - 1}, c \in Alphabet}

ExampleStrs ==
    {"a, b", " a,,B ", "get,post", " GET , Post ", "\ta\n,b ", "example.com, *.example.org",
     "http://localhost:3000,http://localhost:8000"}

NativeLists ==
    {<<>>, <<"a">>, <<" a ", "b,c">>, <<"get", "Post">>, <<"*">>}

UrlInputs ==
    {StrVal(u) : u \in
        {"postgresql://h/d", "postgresql+asyncpg://h/d", "postgres://h/d",
         "postgresqlx://h/d", "postgresql", "postgresql://", "postgresql:h/d",
         "mysql://h/d", "sqlite:///d", "POSTGRESQL://h/d", "http://postgresql/d",
         "", " postgresql://h/d"}}
    \cup {Missing, ListVal(<<"postgresql://h/d">>), ListVal(<<"mysql://h/d">>)}

SecretInputs ==
    {StrVal(s) : s \in
        {"your-super-secret-key-change-in-production",
         "jwt-secret-key-change-in-production",
         "your-super-secret-key-change-in-production ",
         "JWT-SECRET-KEY-CHANGE-IN-PRODUCTION", "s3cret", ""}}
    \cup {Missing, ListVal(<<"jwt-secret-key-change-in-production">>)}

BaseEnv ==
    [f \in Fields |->
        CASE f = "DATABASE_URL" -> StrVal("postgresql://h/d")
          [] f = "SECRET_KEY" -> StrVal("s3cret")
          [] f = "JWT_SECRET_KEY" -> StrVal("jwt-s3cret")
          [] OTHER -> Missing]

SettingsEnvs ==
    {[BaseEnv EXCEPT !["DATABASE_URL"] = u, !["SECRET_KEY"] = s, !["JWT_SECRET_KEY"] = j] :
        u \in UrlInputs, s \in SecretInputs, j \in SecretInputs}
    \cup {[BaseEnv EXCEPT ![f] = StrVal(s)] : f \in ListFields, s \in Strs(MaxLen) \cup ExampleStrs}
    \cup {[BaseEnv EXCEPT ![f] = ListVal(l)] : f \in ListFields, l \in NativeLists}

\* the configurations the service is run with
ServiceEnvs ==
    {BaseEnv,
     [BaseEnv EXCEPT !["ALLOWED_HOSTS"] = StrVal("example.com, *.example.org"),
                     !["DEBUG"] = BoolVal(TRUE),
                     !["APP_NAME"] = StrVal("svc")]}

(***************************************************************************)
(* Python values, handler outcomes, responses                              *)
(***************************************************************************)
PyNone == [t |-> "None"]
PyBool(b) == [t |-> "bool", b |-> b]
PyList(l) == [t |-> "list", l |-> l]
PyDict(d) == [t |-> "dict", d |-> d]
PyUser(id) == [t |-> "UserRead", id |-> id]

\* bool(v)
Truthy(v) ==
    CASE v.t = "None" -> FALSE
      [] v.t = "bool" -> v.b
      [] v.t = "list" -> Len(v.l) > 0
      [] OTHER -> TRUE

NoOutcome == [kind |-> "pending"]
Return(v) == [kind |-> "return", v |-> v]
Raise(e) == [kind |-> "raise", e |-> e]

HTTPException(status, detail) == [type |-> "HTTPException", status |-> status, detail |-> detail]
NotImplementedError(msg) == [type |-> "NotImplementedError", msg |-> msg]

IsHTTPException(out) == out.kind = "raise" /\ out.e.type = "HTTPException"
IsOtherException(out) == out.kind = "raise" /\ out.e.type # "HTTPException"

NoResponse == [t |-> "none", status |-> 0, body |-> [none |-> TRUE]]
Response(status, body) == [t |-> "Response", status |-> status, body |-> body]

HTTP_201_CREATED == 201
HTTP_204_NO_CONTENT == 204
HTTP_400_BAD_REQUEST == 400
HTTP_404_NOT_FOUND == 404

(***************************************************************************)
(* users/service.py: UserService (db is the session the service holds)     *)
(***************************************************************************)
\* get_users reading a page of a table that holds one user
service_get_users_paged(db, skip, limit) ==
    Return(PyList(IF skip = 0 /\ limit > 0 THEN <<PyUser("u1")>> ELSE <<>>))

service_get_users(db, skip, limit) == Return(PyList(<<>>))

service_get_user_by_id_found(db, user_id) == Return(PyUser(user_id))

service_get_user_by_id(db, user_id) == Return(PyNone)

service_get_user_by_email_found(db, email) == Return(PyUser(email))

service_get_user_by_email(db, email) == Return(PyNone)

service_create_user(db, user_data) ==
    Raise(NotImplementedError("User creation not implemented"))

service_update_user_found(db, user_id, user_data) == Return(PyUser(user_id))

service_update_user(db, user_id, user_data) == Return(PyNone)

service_delete_user(db, user_id) == Return(PyBool(FALSE))

(***************************************************************************)
(* Requests                                                                *)
(***************************************************************************)
DbRoutes == {"get_users", "get_user", "create_user", "update_user", "delete_user"}
PlainRoutes == {"health_check", "login", "logout"}
Routes == PlainRoutes \cup DbRoutes

\* the status code a route answers a returned value with
StatusCode(route) ==
    CASE route = "create_user" -> HTTP_201_CREATED
      [] route = "delete_user" -> HTTP_204_NO_CONTENT
      [] OTHER -> 200

Hosts == {"api.example.org", "evil.test"}
UserIds == {"u1", "u2"}
Emails == {"a@x.io", "b@x.io"}
Pages == {<<0, 10>>, <<5, 0>>}
NoArg == "-"
NoPage == <<0, 0>>

\* well-formed requests: the id is a UUID, the body validates
RequestInputs ==
    {[route |-> r, host |-> h, arg |-> NoArg, page |-> NoPage] :
        r \in PlainRoutes, h \in Hosts}
    \cup {[route |-> "get_users", host |-> h, arg |-> NoArg, page |-> p] :
        h \in Hosts, p \in Pages}
    \cup {[route |-> r, host |-> h, arg |-> u, page |-> NoPage] :
        r \in {"get_user", "update_user", "delete_user"}, h \in Hosts, u \in UserIds}
    \cup {[route |-> "create_user", host |-> h, arg |-> e, page |-> NoPage] :
        h \in Hosts, e \in Emails}

\* nothing handed to the router
NoHttp == [pc |-> "none", method |-> "-", path |-> "-", matches |-> {}, result |-> [kind |-> "-", endpoint |-> "-", location |-> "-"]]

NoRequest ==
    [pc |-> "none", route |-> "-", admitted |-> FALSE, host |-> "-", arg |-> NoArg,
     page |-> NoPage,
     session |-> 0, calls |-> <<>>, out |-> NoOutcome, responded |-> FALSE,
     resp |-> NoResponse, escaped |-> "-"]


(***************************************************************************)
(* The process before shared.config is imported                            *)
(***************************************************************************)
InitProcess ==
    /\ importState = "pending"
    /\ errors = {}
    /\ settings = <<>>
    /\ phase = "import"
    /\ engine = "none"
    /\ reqs = [i \in 1..MaxRequests |-> NoRequest]
    /\ nreq = 0
    /\ sessions = [s \in 1..MaxRequests |-> "unused"]
    /\ http = NoHttp

\* the process is started with any of the inputs of Settings()
InitSettings == env \in SettingsEnvs /\ InitProcess

\* the process is started with one of the service configurations
Init == env \in ServiceEnvs /\ InitProcess

(***************************************************************************)
(* shared/config.py:160  settings = Settings()                             *)
(* A validation error ends the import: the process does not start.         *)
(***************************************************************************)
ConstructSettings ==
    /\ importState = "pending"
    /\ LET r == SettingsNew(env) IN
        /\ importState' = IF r.ok THEN "ok" ELSE "failed"
        /\ errors' = r.errors
        /\ settings' = IF r.ok THEN <<r.obj>> ELSE <<>>
    /\ UNCHANGED <<http, env, phase, engine, reqs, nreq, sessions>>

\* get_settings(): the global instance
get_settings == settings[1]

NextSettings == ConstructSettings

SpecSettings == InitSettings /\ [][NextSettings]_vars

(***************************************************************************)
(* main.py:91-111  the middleware chain, outermost first: LoggingMiddleware,*)
(* RequestIDMiddleware, CORSMiddleware, TrustedHostMiddleware.  The two     *)
(* custom middlewares forward the request and return the response they get;*)
(* CORSMiddleware forwards every request that is not an OPTIONS preflight. *)
(***************************************************************************)
HostMatches(host, pattern) ==
    \/ host = pattern
    \/ StartsWith(pattern, "*") /\ EndsWith(host, SubSeq(pattern, 2, Len(pattern)))

\* TrustedHostMiddleware(allowed_hosts=settings.ALLOWED_HOSTS): "pass", or the
\* response it answers with itself
TrustedHostMiddleware(host, allowed_hosts) ==
    IF \E k \in 1..Len(allowed_hosts) : allowed_hosts[k] = "*"
        THEN [pass |-> TRUE, resp |-> NoResponse]
    ELSE IF \E k \in 1..Len(allowed_hosts) : HostMatches(host, allowed_hosts[k])
        THEN [pass |-> TRUE, resp |-> NoResponse]
    ELSE IF \E k \in 1..Len(allowed_hosts) : "www." \o host = allowed_hosts[k]
        THEN [pass |-> FALSE, resp |-> Response(307, [location |-> "www." \o host])]
    ELSE [pass |-> FALSE,
          resp |-> Response(HTTP_400_BAD_REQUEST, [text |-> "Invalid host header"])]

\* LoggingMiddleware.dispatch, RequestIDMiddleware.dispatch: call_next's result
LoggingMiddleware(inner) == inner
RequestIDMiddleware(inner) == inner

\* add_middleware: what the chain does with a request before routing
MiddlewareChain(host) ==
    LoggingMiddleware(RequestIDMiddleware(
        TrustedHostMiddleware(host, get_settings["ALLOWED_HOSTS"])))

(***************************************************************************)
(* shared/database.py and main.py: engine and lifespan                     *)
(***************************************************************************)
\* database.py:9-18, run when shared.database is imported
create_engine ==
    /\ importState = "ok"
    /\ engine = "none"
    /\ engine' = "live"
    /\ UNCHANGED <<http, env, importState, errors, settings, phase, reqs, nreq, sessions>>

InFlight(i) == reqs[i].pc \notin {"none", "done"}

\* lifespan disposing of the engine before its yield
lifespan_startup_disposing ==
    /\ phase = "import"
    /\ engine = "live"
    /\ phase' = "serving"
    /\ engine' = "disposed"
    /\ UNCHANGED <<http, env, importState, errors, settings, reqs, nreq, sessions>>

\* lifespan up to its yield: create_tables() does nothing
lifespan_startup ==
    /\ phase = "import"
    /\ engine = "live"
    /\ phase' = "serving"
    /\ UNCHANGED <<http, env, importState, errors, settings, engine, reqs, nreq, sessions>>

\* lifespan after its yield: the server runs it once the requests in flight
\* have ended
lifespan_shutdown ==
    /\ phase = "serving"
    /\ \A i \in 1..MaxRequests : ~InFlight(i)
    /\ engine' = "disposed"
    /\ phase' = "stopped"
    /\ UNCHANGED <<http, env, importState, errors, settings, reqs, nreq, sessions>>

(***************************************************************************)
(* A request arrives and passes through the middleware chain.  Nothing      *)
(* behind TrustedHostMiddleware reads the Host header: the record keeps it  *)
(* for the requests the middleware answered itself.                         *)
(***************************************************************************)
Receive ==
    /\ phase = "serving"
    /\ nreq < MaxRequests
    /\ \E q \in RequestInputs :
        LET i == nreq + 1
            mw == MiddlewareChain(q.host)
            r == [NoRequest EXCEPT !.route = q.route, !.arg = q.arg, !.page = q.page]
        IN  /\ reqs' = [reqs EXCEPT ![i] =
                    IF mw.pass THEN [r EXCEPT !.pc = "routed", !.admitted = TRUE]
                    ELSE [r EXCEPT !.pc = "done", !.host = q.host, !.resp = mw.resp,
                                   !.responded = TRUE]]
            /\ nreq' = i
    /\ UNCHANGED <<http, env, importState, errors, settings, phase, engine, sessions>>

(***************************************************************************)
(* shared/database.py:21-27  get_db_session                                *)
(***************************************************************************)
\* the state of the session once the generator has been left with outcome out
\* when the session is closed only after a normal return
get_db_session_finally_on_return(out) == IF out.kind = "raise" THEN "open" ELSE "closed"

\* finally: await session.close(), on every way out
get_db_session_finally(out) == "closed"

\* one session object made when the module is imported and handed to every request
AsyncSessionLocal_shared(i) == 1

\* AsyncSessionLocal(): a new session object at each call, named here by the
\* request whose dependency made it
AsyncSessionLocal(i) == i

\* Depends(get_db_session), up to the yield
get_db_session_enter(i) ==
    /\ reqs[i].pc = "routed"
    /\ reqs[i].route \in DbRoutes
    /\ LET s == AsyncSessionLocal(i) IN
        /\ sessions' = [sessions EXCEPT ![s] = "open"]
        /\ reqs' = [reqs EXCEPT ![i].session = s, ![i].pc = "handler"]
    /\ UNCHANGED <<http, env, importState, errors, settings, phase, engine, nreq>>

Released(r) == r.session = 0 \/ sessions[r.session] = "closed"

\* the generator is left once the handler has returned or raised
get_db_session_exit(i) ==
    /\ reqs[i].pc = "exit"
    /\ reqs[i].session # 0
    /\ sessions[reqs[i].session] = "open"
    /\ sessions' = [sessions EXCEPT ![reqs[i].session] = get_db_session_finally(reqs[i].out)]
    /\ reqs' = [reqs EXCEPT ![i].pc = IF reqs[i].responded THEN "done" ELSE "exit"]
    /\ UNCHANGED <<http, env, importState, errors, settings, phase, engine, nreq>>

(***************************************************************************)
(* The handlers: what each returns or raises, and the service calls made   *)
(***************************************************************************)
Ran(out, calls) == [out |-> out, calls |-> calls]

\* main.py:118-126 with the debug flag fixed
health_check_body_debug_off ==
    Ran(Return(PyDict([status |-> "healthy",
                       app |-> get_settings["APP_NAME"],
                       version |-> get_settings["APP_VERSION"],
                       debug |-> FALSE])), <<>>)

\* main.py:118-126
health_check_body ==
    Ran(Return(PyDict([status |-> "healthy",
                       app |-> get_settings["APP_NAME"],
                       version |-> get_settings["APP_VERSION"],
                       debug |-> get_settings["DEBUG"]])), <<>>)

\* auth/api.py:8-11
login_body == Ran(Return(PyDict([message |-> "Login endpoint - not implemented"])), <<>>)

\* auth/api.py:14-17
logout_body == Ran(Return(PyDict([message |-> "Logout endpoint - not implemented"])), <<>>)

\* users/api.py:21-40
get_users_body(db, skip, limit) ==
    LET users == service_get_users(db, skip, limit) IN Ran(users, <<"get_users">>)

\* users/api.py:43-68
get_user_body(db, user_id) ==
    LET user == service_get_user_by_id(db, user_id) IN
    IF user.kind = "raise" THEN Ran(user, <<"get_user_by_id">>)
    ELSE IF ~Truthy(user.v)
        THEN Ran(Raise(HTTPException(HTTP_404_NOT_FOUND, "User not found")),
                 <<"get_user_by_id">>)
    ELSE Ran(Return(user.v), <<"get_user_by_id">>)

\* users/api.py:71-100
create_user_body(db, user_data) ==
    LET existing_user == service_get_user_by_email(db, user_data) IN
    IF existing_user.kind = "raise" THEN Ran(existing_user, <<"get_user_by_email">>)
    ELSE IF Truthy(existing_user.v)
        THEN Ran(Raise(HTTPException(HTTP_400_BAD_REQUEST, "Email already registered")),
                 <<"get_user_by_email">>)
    ELSE Ran(service_create_user(db, user_data), <<"get_user_by_email", "create_user">>)

\* users/api.py:103-130
update_user_body(db, user_id, user_data) ==
    LET user == service_update_user(db, user_id, user_data) IN
    IF user.kind = "raise" THEN Ran(user, <<"update_user">>)
    ELSE IF ~Truthy(user.v)
        THEN Ran(Raise(HTTPException(HTTP_404_NOT_FOUND, "User not found")),
                 <<"update_user">>)
    ELSE Ran(Return(user.v), <<"update_user">>)

\* users/api.py:133-154
delete_user_body(db, user_id) ==
    LET success == service_delete_user(db, user_id) IN
    IF success.kind = "raise" THEN Ran(success, <<"delete_user">>)
    ELSE IF ~Truthy(success.v)
        THEN Ran(Raise(HTTPException(HTTP_404_NOT_FOUND, "User not found")),
                 <<"delete_user">>)
    ELSE Ran(Return(PyNone), <<"delete_user">>)

\* a handler has run to its return or raise
Handled(i, ran) ==
    /\ reqs' = [reqs EXCEPT ![i].out = ran.out, ![i].calls = ran.calls, ![i].pc = "exit"]
    /\ UNCHANGED <<http, env, importState, errors, settings, phase, engine, nreq, sessions>>

\* a health check that switches the debug flag of the settings on
health_check_setting_debug(i) ==
    /\ reqs[i].pc = "routed" /\ reqs[i].route = "health_check"
    /\ reqs' = [reqs EXCEPT ![i].out = health_check_body.out,
                            ![i].calls = health_check_body.calls, ![i].pc = "exit"]
    /\ settings' = <<[settings[1] EXCEPT !["DEBUG"] = TRUE]>>
    /\ UNCHANGED <<http, env, importState, errors, phase, engine, nreq, sessions>>

health_check(i) ==
    reqs[i].pc = "routed" /\ reqs[i].route = "health_check" /\ Handled(i, health_check_body)

login(i) ==
    reqs[i].pc = "routed" /\ reqs[i].route = "login" /\ Handled(i, login_body)

logout(i) ==
    reqs[i].pc = "routed" /\ reqs[i].route = "logout" /\ Handled(i, logout_body)

get_users(i) ==
    /\ reqs[i].pc = "handler" /\ reqs[i].route = "get_users"
    /\ Handled(i, get_users_body(reqs[i].session, reqs[i].page[1], reqs[i].page[2]))

get_user(i) ==
    /\ reqs[i].pc = "handler" /\ reqs[i].route = "get_user"
    /\ Handled(i, get_user_body(reqs[i].session, reqs[i].arg))

create_user(i) ==
    /\ reqs[i].pc = "handler" /\ reqs[i].route = "create_user"
    /\ Handled(i, create_user_body(reqs[i].session, reqs[i].arg))

update_user(i) ==
    /\ reqs[i].pc = "handler" /\ reqs[i].route = "update_user"
    /\ Handled(i, update_user_body(reqs[i].session, reqs[i].arg, "data"))

delete_user(i) ==
    /\ reqs[i].pc = "handler" /\ reqs[i].route = "delete_user"
    /\ Handled(i, delete_user_body(reqs[i].session, reqs[i].arg))

(***************************************************************************)
(* The answer to a request                                                 *)
(***************************************************************************)
\* shared/exceptions.py:9-11  the handler registered for Exception
general_exception_handler(exc) == PyDict([error |-> "Internal server error"])

\* the handler registered for Exception is run by the server-error layer,
\* which sends what the handler returns as a response: a value that is not a
\* Response cannot be sent (TypeError), and the application sends nothing
ServerError(exc) ==
    LET h == general_exception_handler(exc) IN
    IF h.t = "Response" THEN [resp |-> h, escaped |-> exc.type]
    ELSE [resp |-> NoResponse, escaped |-> "TypeError"]

\* what the application answers a handler's outcome with
Answer(route, out) ==
    IF out.kind = "return"
        THEN [resp |-> Response(StatusCode(route),
                                IF route = "delete_user" THEN PyNone ELSE out.v),
              escaped |-> "-"]
    ELSE IF IsHTTPException(out)
        THEN [resp |-> Response(out.e.status, [detail |-> out.e.detail]), escaped |-> "-"]
    ELSE ServerError(out.e)

\* The response is sent before or after the session dependency is left; an
\* exception that is no HTTPException unwinds the dependency first.
Respond(i) ==
    /\ reqs[i].pc = "exit"
    /\ ~reqs[i].responded
    /\ IsOtherException(reqs[i].out) => Released(reqs[i])
    /\ LET a == Answer(reqs[i].route, reqs[i].out) IN
        reqs' = [reqs EXCEPT ![i].resp = a.resp, ![i].escaped = a.escaped,
                             ![i].responded = TRUE,
                             ![i].pc = IF Released(reqs[i]) THEN "done" ELSE "exit"]
    /\ UNCHANGED <<http, env, importState, errors, settings, phase, engine, nreq, sessions>>

Next ==
    \/ ConstructSettings
    \/ create_engine
    \/ lifespan_startup
    \/ Receive
    \/ \E i \in 1..MaxRequests :
        \/ get_db_session_enter(i)
        \/ health_check(i)
        \/ login(i)
        \/ logout(i)
        \/ get_users(i)
        \/ get_user(i)
        \/ create_user(i)
        \/ update_user(i)
        \/ delete_user(i)
        \/ get_db_session_exit(i)
        \/ Respond(i)
    \/ lifespan_shutdown

Spec == Init /\ [][Next]_vars

(***************************************************************************)
(* main.py:114-139, users/api.py, auth/api.py: the route table.            *)
(* The application's router tries its routes in the order they were added: *)
(* the first whose path pattern and methods both match handles the         *)
(* request; a path that matches with another method gives 405; a path that *)
(* matches once its trailing slash is added or removed gives a redirect;   *)
(* anything else 404.                                                      *)
(***************************************************************************)
Route(methods, path, endpoint) == [methods |-> methods, path |-> path, endpoint |-> endpoint]

\* auth/api.py:8-17
auth_router ==
    <<Route({"POST"}, "/login", "login"),
      Route({"POST"}, "/logout", "logout")>>

\* users/api.py:21-154
users_router ==
    <<Route({"GET"}, "/", "get_users"),
      Route({"GET"}, "/{user_id}", "get_user"),
      Route({"POST"}, "/", "create_user"),
      Route({"PUT"}, "/{user_id}", "update_user"),
      Route({"DELETE"}, "/{user_id}", "delete_user")>>

\* app.include_router(router, prefix=...): each route under the prefix
include_router(router, prefix) ==
    [k \in 1..Len(router) |-> [router[k] EXCEPT !.path = prefix \o @]]

\* main.py:73-75: the documentation routes exist in debug mode only
docs_routes(debug) ==
    IF debug
    THEN <<Route({"GET", "HEAD"}, "/openapi.json", "openapi"),
           Route({"GET", "HEAD"}, "/docs", "swagger_ui_html"),
           Route({"GET", "HEAD"}, "/docs/oauth2-redirect", "swagger_ui_redirect"),
           Route({"GET", "HEAD"}, "/redoc", "redoc_html")>>
    ELSE <<>>

\* include_routers with the users group registered under the auth prefix
include_routers_one_prefix ==
    <<Route({"GET"}, "/health", "health_check")>>
    \o include_router(auth_router, "/api/v1/auth")
    \o include_router(users_router, "/api/v1/auth")

\* include_routers, main.py:114-139
include_routers ==
    <<Route({"GET"}, "/health", "health_check")>>
    \o include_router(auth_router, "/api/v1/auth")
    \o include_router(users_router, "/api/v1/users")

\* create_app: the routes of the application, in order
app_routes == docs_routes(get_settings["DEBUG"]) \o include_routers

IsParam(seg) == Len(seg) >= 2 /\ CharAt(seg, 1) = "{" /\ CharAt(seg, Len(seg)) = "}"

\* a path pattern matches a path when they have the same segments, a
\* parameter {name} standing for one segment that is not empty
PathMatches(pattern, path) ==
    LET ps == split(pattern, "/")
        xs == split(path, "/")
    IN  /\ Len(ps) = Len(xs)
        /\ \A k \in 1..Len(ps) :
            IF IsParam(ps[k]) THEN Len(xs[k]) > 0 ELSE ps[k] = xs[k]

\* Route.matches
RouteMatches(route, method, path) ==
    IF ~PathMatches(route.path, path) THEN "NONE"
    ELSE IF method \in route.methods THEN "FULL"
    ELSE "PARTIAL"

\* the path with its trailing slash removed, or added
ToggleSlash(path) ==
    IF EndsWith(path, "/") THEN SubSeq(path, 1, Len(path) - 1) ELSE path \o "/"

Routed(kind, endpoint, location) == [kind |-> kind, endpoint |-> endpoint, location |-> location]

\* Router.app: what the router does with a method and a path
Dispatch(routes, method, path) ==
    LET full == {k \in 1..Len(routes) : RouteMatches(routes[k], method, path) = "FULL"}
        partial == {k \in 1..Len(routes) : RouteMatches(routes[k], method, path) = "PARTIAL"}
    IN  IF full # {}
            THEN Routed("handler", routes[CHOOSE k \in full : \A j \in full : k <= j].endpoint, "-")
        ELSE IF partial # {}
            THEN Routed("405", "-", "-")
        ELSE IF path # "/" /\ \E k \in 1..Len(routes) :
                                RouteMatches(routes[k], method, ToggleSlash(path)) # "NONE"
            THEN Routed("307", "-", ToggleSlash(path))
        ELSE Routed("404", "-", "-")

\* the endpoints of all the routes that match the method and the path
FullMatches(routes, method, path) ==
    {routes[k].endpoint : k \in {j \in 1..Len(routes) :
                                    RouteMatches(routes[j], method, path) = "FULL"}}

Methods == {"GET", "POST", "PUT", "DELETE", "HEAD"}

PathPrefixes ==
    {"", "/api/v1/auth", "/api/v1/users", "/api/v1", "/api/v2/users", "/auth", "/users"}

TailSegments == {"", "health", "login", "logout", "u1", "docs"}

\* the paths "/s1/.../sn" of at most n segments
RECURSIVE Tails(_)
Tails(n) ==
    IF n = 0 THEN {""}
    ELSE {""} \cup {"/" \o s \o rest : s \in TailSegments, rest \in Tails(n - 1)}

RoutedPaths == {p \o tl : p \in PathPrefixes, tl \in Tails(MaxTail)} \ {""}

\* the application has been imported and started, and is handed a request
InitRouting ==
    /\ env \in ServiceEnvs
    /\ importState = "ok"
    /\ errors = {}
    /\ settings = <<SettingsNew(env).obj>>
    /\ phase = "serving"
    /\ engine = "live"
    /\ reqs = [i \in 1..MaxRequests |-> NoRequest]
    /\ nreq = 0
    /\ sessions = [s \in 1..MaxRequests |-> "unused"]
    /\ \E m \in Methods, p \in RoutedPaths :
        http = [NoHttp EXCEPT !.pc = "received", !.method = m, !.path = p]

\* the router dispatches the request
RouteRequest ==
    /\ http.pc = "received"
    /\ http' = [http EXCEPT !.pc = "routed",
                            !.matches = FullMatches(app_routes, http.method, http.path),
                            !.result = Dispatch(app_routes, http.method, http.path)]
    /\ UNCHANGED <<env, importState, errors, settings, phase, engine, reqs, nreq, sessions>>

NextRouting == RouteRequest

SpecRouting == InitRouting /\ [][NextRouting]_vars

(***************************************************************************)
(* Claims about Settings (checked under SpecSettings)                      *)
(***************************************************************************)
Constructed == importState # "pending"

Rejected(f) == importState = "failed" /\ f \in errors /\ settings = <<>>

\* C1: constructing Settings with a DATABASE_URL string whose scheme is not a
\* PostgreSQL scheme fails with a validation error on that field, and no
\* Settings object is produced.
C1_NonPostgresUrlRejected ==
    (/\ Constructed
     /\ env["DATABASE_URL"].kind = "str"
     /\ SchemeOf(env["DATABASE_URL"].s) \notin PostgresSchemes)
    => Rejected("DATABASE_URL")

\* a URL that begins with "postgresql" but whose scheme is not PostgreSQL was
\* given and rejected
C1_Witness ==
    /\ env["DATABASE_URL"] = StrVal("postgresqlx://h/d")
    /\ Rejected("DATABASE_URL")

\* C2: each of SECRET_KEY and JWT_SECRET_KEY is rejected exactly when it equals
\* one of the two placeholder literals; every other string passes the check.
C2_PlaceholderSecretsRejected ==
    Constructed =>
        \A f \in {"SECRET_KEY", "JWT_SECRET_KEY"} :
            env[f].kind = "str" =>
                /\ (env[f].s = "your-super-secret-key-change-in-production"
                    \/ env[f].s = "jwt-secret-key-change-in-production")
                   <=> f \in errors
                /\ f \in errors => Rejected(f)

\* JWT_SECRET_KEY was given the SECRET_KEY placeholder and rejected, while a
\* near miss of a placeholder in SECRET_KEY passed
C2_Witness ==
    /\ env["JWT_SECRET_KEY"] = StrVal("your-super-secret-key-change-in-production")
    /\ env["SECRET_KEY"] = StrVal("your-super-secret-key-change-in-production ")
    /\ Rejected("JWT_SECRET_KEY")
    /\ "SECRET_KEY" \notin errors

\* The list a comma-delimited string stands for, stated by position: the k-th
\* element is what lies between the (k-1)-th and the k-th comma, from its first
\* to its last character that is not white space.
Commas(s) == {i \in 1..Len(s) : CharAt(s, i) = ","}

SetMin(S) == CHOOSE x \in S : \A y \in S : x <= y

SetMax(S) == CHOOSE x \in S : \A y \in S : x >= y

KthComma(s, k) ==
    IF k = 0 THEN 0
    ELSE IF k > Cardinality(Commas(s)) THEN Len(s) + 1
    ELSE CHOOSE i \in Commas(s) : Cardinality({j \in Commas(s) : j < i}) = k - 1

Between(s, k) == SubSeq(s, KthComma(s, k - 1) + 1, KthComma(s, k) - 1)

Trimmed(t) ==
    LET inked == {i \in 1..Len(t) : CharAt(t, i) \notin {" ", "\t", "\n"}} IN
    IF inked = {} THEN "" ELSE SubSeq(t, SetMin(inked), SetMax(inked))

TrimmedElements(s) == [k \in 1..(Cardinality(Commas(s)) + 1) |-> Trimmed(Between(s, k))]

PlainListFields == {"ALLOWED_ORIGINS", "ALLOWED_HEADERS", "ALLOWED_HOSTS"}

LetterCases ==
    {<<"a", "A">>, <<"b", "B">>, <<"c", "C">>, <<"d", "D">>, <<"e", "E">>,
     <<"f", "F">>, <<"g", "G">>, <<"h", "H">>, <<"i", "I">>, <<"j", "J">>,
     <<"k", "K">>, <<"l", "L">>, <<"m", "M">>, <<"n", "N">>, <<"o", "O">>,
     <<"p", "P">>, <<"q", "Q">>, <<"r", "R">>, <<"s", "S">>, <<"t", "T">>,
     <<"u", "U">>, <<"v", "V">>, <<"w", "W">>, <<"x", "X">>, <<"y", "Y">>,
     <<"z", "Z">>}

UpperOf(c) ==
    IF \E p \in LetterCases : p[1] = c
    THEN (CHOOSE p \in LetterCases : p[1] = c)[2]
    ELSE c

UpperedElements(s) ==
    [k \in 1..(Cardinality(Commas(s)) + 1) |->
        LET t == Trimmed(Between(s, k)) IN
        IF t = "" THEN ""
        ELSE LET RECURSIVE Up(_)
                 Up(i) == IF i > Len(t) THEN "" ELSE UpperOf(CharAt(t, i)) \o Up(i + 1)
             IN Up(1)]

Req == 1..MaxRequests

Done(i) == reqs[i].pc = "done"

HealthRecord ==
    PyDict([status |-> "healthy", app |-> settings[1]["APP_NAME"],
            version |-> settings[1]["APP_VERSION"], debug |-> settings[1]["DEBUG"]])

InvalidHost == Response(400, [text |-> "Invalid host header"])

UserNotFound == Response(404, [detail |-> "User not found"])

EmailRegistered == Response(400, [detail |-> "Email already registered"])

\* the Host header matches no entry of ALLOWED_HOSTS
HostRefused(host) ==
    \A k \in 1..Len(settings[1]["ALLOWED_HOSTS"]) :
        LET p == settings[1]["ALLOWED_HOSTS"][k] IN
        /\ p # "*"
        /\ p # host
        /\ ~(Len(p) > 0 /\ SubSeq(p, 1, 1) = "*" /\ EndsWith(host, SubSeq(p, 2, Len(p))))

\* a request the trusted-host middleware answered itself, with 400
RefusedByHost(i) ==
    /\ ~reqs[i].admitted
    /\ HostRefused(reqs[i].host)
    /\ reqs[i].resp = InvalidHost
    /\ reqs[i].session = 0
    /\ reqs[i].calls = <<>>

C9_SessionReleasedOnEveryPath ==
    /\ \A i \in Req :
        /\ (reqs[i].route \in DbRoutes /\ reqs[i].pc \in {"handler", "exit"})
                => sessions[reqs[i].session] # "unused"
        /\ (reqs[i].route \in DbRoutes /\ reqs[i].pc = "handler")
                => sessions[reqs[i].session] = "open"
        /\ (Done(i) /\ reqs[i].session # 0) => sessions[reqs[i].session] = "closed"
        /\ (Done(i) /\ reqs[i].admitted /\ reqs[i].route \in DbRoutes) => reqs[i].session # 0
    /\ \A i, j \in Req : (i # j /\ reqs[i].session # 0) => reqs[i].session # reqs[j].session
    /\ \A s \in DOMAIN sessions :
        sessions[s] = "open" => \E i \in Req : InFlight(i) /\ reqs[i].session = s

\* sessions were closed after a normal return, after a 404 and after the
\* create stub's NotImplementedError
C9_Witness ==
    \E i, j \in Req :
        /\ Done(i) /\ reqs[i].route = "create_user"
        /\ IsOtherException(reqs[i].out) /\ sessions[reqs[i].session] = "closed"
        /\ Done(j) /\ reqs[j].route = "get_user"
        /\ IsHTTPException(reqs[j].out) /\ sessions[reqs[j].session] = "closed"

\* C10: a request that has ended has a response: for an HTTPException raised
\* by the handler the response with its status (404, 400) and detail; for any
\* other exception the response the catch-all handler made of it.
C10_ErrorsMappedByClass ==
    \A i \in Req :
        Done(i) =>
            /\ reqs[i].resp.t = "Response"
            /\ IsHTTPException(reqs[i].out) =>
                /\ reqs[i].resp = Response(reqs[i].out.e.status, [detail |-> reqs[i].out.e.detail])
                /\ reqs[i].resp.status \in {404, 400}
            /\ IsOtherException(reqs[i].out) =>
                /\ reqs[i].resp.body = general_exception_handler(reqs[i].out.e).d
                /\ reqs[i].escaped = "-"

(***************************************************************************)
(* Claims about routing (checked under SpecRouting)                        *)
(***************************************************************************)
\* the handler the documented surface names for a method and a path
\* ("-" when the surface has no such method and path)
Documented(method, path) ==
    LET underUsers == StartsWith(path, "/api/v1/users/")
        id == SubSeq(path, Len("/api/v1/users/") + 1, Len(path))
        isId == underUsers /\ Len(id) > 0 /\ \A k \in 1..Len(id) : CharAt(id, k) # "/"
    IN  CASE method = "GET" /\ path = "/health" -> "health_check"
          [] method = "POST" /\ path = "/api/v1/auth/login" -> "login"
          [] method = "POST" /\ path = "/api/v1/auth/logout" -> "logout"
          [] method = "GET" /\ path = "/api/v1/users/" -> "get_users"
          [] method = "POST" /\ path = "/api/v1/users/" -> "create_user"
          [] method = "GET" /\ isId -> "get_user"
          [] method = "PUT" /\ isId -> "update_user"
          [] method = "DELETE" /\ isId -> "delete_user"
          [] OTHER -> "-"

\* C11: every method and path of the documented surface is dispatched to its
\* handler, which is the only route matching it; no method and path is matched
\* by two routes; the auth handlers are reached only under /api/v1/auth/ and
\* the users handlers only under /api/v1/users/.
C11_OneHandlerPerMethodAndPath ==
    http.pc = "routed" =>
        /\ Cardinality(http.matches) <= 1
        /\ Documented(http.method, http.path) # "-" =>
            /\ http.matches = {Documented(http.method, http.path)}
            /\ http.result = Routed("handler", Documented(http.method, http.path), "-")
        /\ http.result.endpoint \in {"login", "logout"}
            => StartsWith(http.path, "/api/v1/auth/")
        /\ http.result.endpoint \in DbRoutes
            => StartsWith(http.path, "/api/v1/users/")
        /\ (http.result.kind = "handler" /\ http.result.endpoint \in Routes)
            => http.result.endpoint = Documented(http.method, http.path)

\* DELETE /api/v1/users/u1 was dispatched to delete_user alone, two other
\* routes matching the path with other methods
C11_Witness ==
    /\ http.pc = "routed"
    /\ http.method = "DELETE" /\ http.path = "/api/v1/users/u1"
    /\ http.matches = {"delete_user"}
    /\ http.result.endpoint = "delete_user"

(***************************************************************************)
(* Claims about the engine (checked under Spec)                            *)
(***************************************************************************)
\* the engine is there and has not been disposed of while requests are served
EngineLiveWhileServing ==
    /\ phase = "serving" => engine = "live"
    /\ nreq > 0 => engine # "none"
    /\ (\E i \in 1..MaxRequests : InFlight(i)) => engine = "live"
    /\ engine = "disposed" <=> phase = "stopped"

\* the engine is constructed once, at import, and disposed of once, by the
\* shutdown half of lifespan, which runs after the startup half
EngineOnceEach ==
    engine' # engine =>
        \/ engine = "none" /\ engine' = "live" /\ phase = "import" /\ nreq = 0
        \/ engine = "live" /\ engine' = "disposed" /\ phase = "serving" /\ phase' = "stopped"

\* a session is opened on a live engine only
SessionsFromLiveEngine ==
    \A s \in 1..MaxRequests :
        (sessions[s] # "open" /\ sessions'[s] = "open") => engine = "live" /\ engine' = "live"

\* C12: one process-global engine, constructed exactly once before any
\* request is served, disposed of exactly once at shutdown after the startup
\* step; no request acquires a session once the engine has been disposed of.
C12_EngineOnceAndLiveWhileServing ==
    [](EngineLiveWhileServing) /\ [][EngineOnceEach /\ SessionsFromLiveEngine]_vars

\* the service has stopped and the engine is disposed of, after a request
\* that had acquired a session from it and released it
C12_Witness ==
    /\ phase = "stopped"
    /\ engine = "disposed"
    /\ \E i \in 1..MaxRequests :
        /\ Done(i)
        /\ reqs[i].session # 0
        /\ sessions[reqs[i].session] = "closed"

(***************************************************************************)
(* Claims about the user list and the service stubs (checked under Spec)   *)
(***************************************************************************)
\* the outcomes of the user service's operations are the fixed ones, for
\* every session, page, id, email and payload of the requests
StubOutcomesFixed ==
    \A db \in 0..MaxRequests :
        /\ \A pg \in Pages : service_get_users(db, pg[1], pg[2]) = Return(PyList(<<>>))
        /\ \A id \in UserIds :
            /\ service_get_user_by_id(db, id) = Return(PyNone)
            /\ service_update_user(db, id, "data") = Return(PyNone)
            /\ service_delete_user(db, id) = Return(PyBool(FALSE))
        /\ \A e \in Emails :
            /\ service_get_user_by_email(db, e) = Return(PyNone)
            /\ service_create_user(db, e).kind = "raise"
            /\ service_create_user(db, e).e.type = "NotImplementedError"

ImportedSettings == SettingsNew(env).obj

\* the outcome of request i's handler when the request is handled alone, in
\* a process that has served nothing else
OutcomeAlone(i) ==
    LET r == reqs[i] IN
    CASE r.route = "health_check" ->
            Return(PyDict([status |-> "healthy", app |-> ImportedSettings["APP_NAME"],
                           version |-> ImportedSettings["APP_VERSION"],
                           debug |-> ImportedSettings["DEBUG"]]))
      [] r.route = "login" -> login_body.out
      [] r.route = "logout" -> logout_body.out
      [] r.route = "get_users" -> get_users_body(i, r.page[1], r.page[2]).out
      [] r.route = "get_user" -> get_user_body(i, r.arg).out
      [] r.route = "create_user" -> create_user_body(i, r.arg).out
      [] r.route = "update_user" -> update_user_body(i, r.arg, "data").out
      [] r.route = "delete_user" -> delete_user_body(i, r.arg).out

\* the response to request i when it is handled alone
ResponseAlone(i) ==
    IF ~reqs[i].admitted THEN InvalidHost
    ELSE Answer(reqs[i].route, OutcomeAlone(i)).resp

\* every answered request has the response it gets when handled alone
ResponsesAsAlone ==
    \A i \in Req : reqs[i].responded => reqs[i].resp = ResponseAlone(i)

\* get_settings() is the object built at import, at every moment
SettingsAsImported ==
    importState = "ok" => (Len(settings) = 1 /\ get_settings = ImportedSettings)

\* once built, the settings object is not written
SettingsReadOnly == settings # <<>> => settings' = settings

\* a step of one request leaves the other requests and their sessions alone
OneRequestPerStep ==
    \A i, j \in Req :
        i # j => ~(/\ (reqs'[i] # reqs[i] \/ sessions'[i] # sessions[i])
                   /\ (reqs'[j] # reqs[j] \/ sessions'[j] # sessions[j]))

\* C14: no handler or middleware writes process-global state: the settings
\* object built at import is never modified and get_settings always returns
\* it, so in every interleaving of the requests each one gets the response it
\* gets when handled alone.
C14_NoSharedWritesSameResponses ==
    /\ [](SettingsAsImported /\ ResponsesAsAlone)
    /\ [][SettingsReadOnly /\ OneRequestPerStep]_vars

\* the second request was answered 200 by the health check, with the debug
\* flag of the import, while the first, a health check too, had run its
\* handler and was not yet answered
C14_Witness ==
    /\ reqs[1].route = "health_check" /\ reqs[1].pc = "exit" /\ ~reqs[1].responded
    /\ reqs[2].route = "health_check" /\ Done(2) /\ reqs[2].admitted
    /\ reqs[2].resp.status = 200
    /\ reqs[2].resp.body.d.debug = ImportedSettings["DEBUG"]
    /\ ~ImportedSettings["DEBUG"]

====
